---- MODULE Spec2Model ----
(***************************************************************************)
(* Model of scrape_licenses.py: the corpus loader (load_local_licenses),   *)
(* the folder-name sanitiser, the paragraph search (search_and_save) and   *)
(* the interactive session loop (main).                                    *)
(*                                                                         *)
(* Texts, terms and paragraphs are sequences of one-character strings.     *)
(* The output area (the parent directory "..") is modelled by `folders`    *)
(* (the sub-folders that exist, by name; the empty name is ".." itself)    *)
(* and `files` (folder name -> rows of its results.csv).                   *)
(* csv.writer.writerow is modelled as appending one row to the file.       *)
(* `reports` is a history variable: one entry per completed search, in     *)
(* order, holding the term and the content of its report at that moment.   *)
(***************************************************************************)
EXTENDS Integers, Sequences, FiniteSets

VARIABLES text_dir, k, licenses_data, pc, exc, term, folders, files,
          found_count, li, i, msgs, budget, reports

vars == <<text_dir, k, licenses_data, pc, exc, term, folders, files,
          found_count, li, i, msgs, budget, reports>>

(* ------------------------------ bounds --------------------------------- *)

MaxTextLen == 5

MaxSearches == 3

(* ---------------------------- characters ------------------------------- *)

NL == "\n"

SP == " "

FolderNameLimit == 100

IllegalChars == {"<", ">", ":", "\"", "/", "\\", "|", "?", "*"}

NA == <<"N", "/", "A">>

Header ==
  <<"License ID", <<"Paragraph Before">>, <<"Paragraph with Hit">>, <<"Paragraph After">>>>

IsSpace(c) == c \in {SP, NL}

Lower(c) ==
  CASE c = "A" -> "a"
    [] c = "B" -> "b"
    [] c = "E" -> "e"
    [] c = "X" -> "x"
    [] c = "I" -> "i"
    [] c = "T" -> "t"
    [] OTHER -> c

LowerStr(s) == [n \in 1..Len(s) |-> Lower(s[n])]

Range(s) == {s[n] : n \in 1..Len(s)}

MaxOf(S) == CHOOSE m \in S : \A n \in S : n <= m

MinOf(S) == CHOOSE m \in S : \A n \in S : m <= n

(* str.strip(): drop leading and trailing whitespace *)
Strip(s) ==
  LET ink == {n \in 1..Len(s) : ~IsSpace(s[n])}
  IN  IF ink = {} THEN <<>> ELSE SubSeq(s, MinOf(ink), MaxOf(ink))

(* ------------------------- paragraph splitting ------------------------- *)

(* End of the match of \n\s*\n starting at position p, 0 when none.  \s*   *)
(* is greedy: the match ends at the last newline of the whitespace run     *)
(* that follows position p.                                                *)
SepEnd(s, p) ==
  IF s[p] # NL THEN 0
  ELSE LET run == {e \in p..Len(s) : \A j \in (p+1)..e : IsSpace(s[j])}
           nls == {m \in (p+1)..MaxOf(run) : s[m] = NL}
       IN  IF nls = {} THEN 0 ELSE MaxOf(nls)

RECURSIVE SplitFrom(_, _, _)
SplitFrom(s, st, p) ==
  IF p > Len(s) THEN <<SubSeq(s, st, Len(s))>>
  ELSE IF SepEnd(s, p) > 0
       THEN <<SubSeq(s, st, p - 1)>> \o SplitFrom(s, SepEnd(s, p) + 1, SepEnd(s, p) + 1)
       ELSE SplitFrom(s, st, p + 1)

(* re.split(r'\n\s*\n', license_text) *)
re_split(text) == SplitFrom(text, 1, 1)

(* --------------------------- pattern matching -------------------------- *)
(* Patterns are over literal characters, the alternation bar "|" and the   *)
(* group opener "(".  With no ")" available a pattern holding "(" does not *)
(* compile (re.error: missing ), unterminated subpattern).                 *)

Compiles(pat) == "(" \notin Range(pat)

RECURSIVE Alternatives(_)
Alternatives(pat) ==
  LET bars == {n \in 1..Len(pat) : pat[n] = "|"}
  IN  IF bars = {} THEN {pat}
      ELSE {SubSeq(pat, 1, MinOf(bars) - 1)}
             \cup Alternatives(SubSeq(pat, MinOf(bars) + 1, Len(pat)))

LitAt(lit, s, p) == \A j \in 1..Len(lit) : Lower(s[p + j - 1]) = Lower(lit[j])

Occurrences(lit, s) == {p \in 1..(Len(s) - Len(lit) + 1) : LitAt(lit, s, p)}

(* re.search(pat, s, re.IGNORECASE) for a pattern that compiles *)
re_search(pat, s) == \E lit \in Alternatives(pat) : Occurrences(lit, s) # {}

(* ------------------------- sanitize_for_foldername --------------------- *)

RemoveIllegal(t) == SelectSeq(t, LAMBDA c : c \notin IllegalChars)

Take(s, n) == SubSeq(s, 1, IF Len(s) < n THEN Len(s) ELSE n)

sanitize_for_foldername(t) == Strip(Take(RemoveIllegal(t), FolderNameLimit))

(* ----------------------------- search_and_save ------------------------- *)

Paragraphs(entry) == re_split(entry.licenseText)

CleanPara(ps, n) == Strip(ps[n])

PrevPara(ps, n) == IF n > 1 THEN Strip(ps[n - 1]) ELSE NA

NextPara(ps, n) == IF n < Len(ps) THEN Strip(ps[n + 1]) ELSE NA

RowFor(entry, ps, n) == <<entry.licenseId, PrevPara(ps, n), CleanPara(ps, n), NextPara(ps, n)>>

IsHit(ps, n, pat) == CleanPara(ps, n) # <<>> /\ re_search(pat, CleanPara(ps, n))

CountAfter_all(found, ps, n, pat) == found + 1

CountAfter_occ(found, ps, n, pat) ==
  found + Cardinality(UNION {Occurrences(lit, CleanPara(ps, n)) : lit \in Alternatives(pat)})

CountAfter(found, ps, n, pat) == IF IsHit(ps, n, pat) THEN found + 1 ELSE found

RECURSIVE DocRows(_, _, _, _)
DocRows(entry, ps, pat, n) ==
  IF n > Len(ps) THEN <<>>
  ELSE (IF IsHit(ps, n, pat) THEN <<RowFor(entry, ps, n)>> ELSE <<>>)
         \o DocRows(entry, ps, pat, n + 1)

RECURSIVE AllRows(_, _, _)
AllRows(data, pat, d) ==
  IF d > Len(data) THEN <<>>
  ELSE DocRows(data[d], Paragraphs(data[d]), pat, 1) \o AllRows(data, pat, d + 1)

(* ------------------------------ file system ---------------------------- *)

OpenAppend(fs, f) ==
  [g \in DOMAIN fs \cup {f} |->
     IF g = f THEN (IF f \in DOMAIN fs THEN fs[f] ELSE <<>>) \o <<Header>> ELSE fs[g]]

(* open(file_path, 'w') followed by the header row *)
OpenWrite(fs, f) == [g \in DOMAIN fs \cup {f} |-> IF g = f THEN <<Header>> ELSE fs[g]]

WriteRow(fs, f, row) == [fs EXCEPT ![f] = Append(@, row)]

(* os.rmdir succeeds only on an empty directory; ".." itself holds the     *)
(* repository folder and is never empty                                    *)
DirEmpty(fs, f) == f # <<>> /\ f \notin DOMAIN fs

Record(rs, t, content) == Append(rs, [term |-> t, content |-> content])

(* ------------------------------- inputs -------------------------------- *)

File(stem, ext, status, text) ==
  [stem |-> stem, ext |-> ext, status |-> status, text |-> text]

TextAlphabet == {"a", "b", SP, NL}

Texts == UNION {[1..n -> TextAlphabet] : n \in 0..MaxTextLen}

ExplicitDirs ==
  { [exists |-> FALSE, listing |-> <<>>],
    [exists |-> TRUE, listing |-> <<>>],
    [exists |-> TRUE, listing |-> <<File("GPL", ".txt", "ioerror", <<>>)>>],
    [exists |-> TRUE, listing |->
       <<File("MIT", ".txt", "ok", <<"a", "A", NL, NL, "c", NL, SP, NL, "A", SP, "c">>)>>],
    [exists |-> TRUE, listing |->
       <<File("MIT", ".txt", "ok", <<NL, NL, "a", NL, NL, "b", NL, NL>>),
         File("README", ".md", "ok", <<"a">>),
         File("GPL", ".txt", "ioerror", <<>>),
         File("BSD", ".txt", "ok", <<"b", SP, "a", NL, NL, "A">>)>>],
    [exists |-> TRUE, listing |->
       <<File("BAD", ".txt", "decode", <<>>),
         File("MIT", ".txt", "ok", <<"a", NL, NL, "b">>)>>] }

WideDirs ==
  { [exists |-> TRUE, listing |-> <<File("MIT", ".txt", "ok", t)>> \o rest] :
      t \in Texts,
      rest \in {<<>>, <<File("BSD", ".txt", "ok", <<"b", NL, NL, "a", "a">>)>>} }

TermSet ==
  { <<"a">>, <<"A">>, <<"a", "|">>, <<SP, "a">>, <<"b">>, <<"(">>,
    <<>>, <<SP>>, <<"e", "x", "i", "t">>, <<"E", "x", "i", "t">> }

(* ------------------------------- Init ---------------------------------- *)

InitWith(dirs, n) ==
  /\ text_dir \in dirs
  /\ k = 1
  /\ licenses_data = <<>>
  /\ pc = "load"
  /\ exc = "none"
  /\ term = <<>>
  /\ folders = {<<>>}
  /\ files = <<>>
  /\ found_count = 0
  /\ li = 1
  /\ i = 1
  /\ msgs = <<>>
  /\ budget = n
  /\ reports = <<>>

Init == InitWith(ExplicitDirs, MaxSearches)

InitSearch == InitWith(ExplicitDirs \cup WideDirs, 1)

(* --------------------------- load_local_licenses ----------------------- *)

LoadMissing ==
  /\ pc = "load"
  /\ ~text_dir.exists
  /\ pc' = "done"
  /\ msgs' = Append(msgs, "directory not found")
  /\ UNCHANGED <<text_dir, k, licenses_data, exc, term, folders, files,
                 found_count, li, i, budget, reports>>

LoadSkipName ==
  /\ pc = "load"
  /\ text_dir.exists
  /\ k <= Len(text_dir.listing)
  /\ text_dir.listing[k].ext # ".txt"
  /\ k' = k + 1
  /\ UNCHANGED <<text_dir, licenses_data, pc, exc, term, folders, files,
                 found_count, li, i, msgs, budget, reports>>

LoadRead ==
  /\ pc = "load"
  /\ text_dir.exists
  /\ k <= Len(text_dir.listing)
  /\ text_dir.listing[k].ext = ".txt"
  /\ text_dir.listing[k].status = "ok"
  /\ licenses_data' = Append(licenses_data,
                             [licenseId |-> text_dir.listing[k].stem,
                              licenseText |-> text_dir.listing[k].text])
  /\ k' = k + 1
  /\ UNCHANGED <<text_dir, pc, exc, term, folders, files,
                 found_count, li, i, msgs, budget, reports>>

LoadIOError ==
  /\ pc = "load"
  /\ text_dir.exists
  /\ k <= Len(text_dir.listing)
  /\ text_dir.listing[k].ext = ".txt"
  /\ text_dir.listing[k].status = "ioerror"
  /\ msgs' = Append(msgs, "could not read file")
  /\ k' = k + 1
  /\ UNCHANGED <<text_dir, licenses_data, pc, exc, term, folders, files,
                 found_count, li, i, budget, reports>>

(* UnicodeDecodeError is a ValueError, not an IOError: the except clause   *)
(* does not catch it and it leaves load_local_licenses and main            *)
LoadDecodeError ==
  /\ pc = "load"
  /\ text_dir.exists
  /\ k <= Len(text_dir.listing)
  /\ text_dir.listing[k].ext = ".txt"
  /\ text_dir.listing[k].status = "decode"
  /\ pc' = "crashed"
  /\ exc' = "UnicodeDecodeError"
  /\ UNCHANGED <<text_dir, k, licenses_data, term, folders, files,
                 found_count, li, i, msgs, budget, reports>>

LoadFinish ==
  /\ pc = "load"
  /\ text_dir.exists
  /\ k > Len(text_dir.listing)
  /\ IF licenses_data = <<>>
     THEN pc' = "done" /\ msgs' = Append(msgs, "no license files")
     ELSE pc' = "prompt" /\ msgs' = Append(msgs, "loaded")
  /\ UNCHANGED <<text_dir, k, licenses_data, exc, term, folders, files,
                 found_count, li, i, budget, reports>>

(* --------------------------------- main -------------------------------- *)

IsExit(t) == LowerStr(t) = <<"e", "x", "i", "t">>

IsBlank_empty(t) == t = <<>>

IsBlank(t) == Strip(t) = <<>>

Exit(t) ==
  /\ pc = "prompt"
  /\ IsExit(t)
  /\ term' = t
  /\ pc' = "done"
  /\ msgs' = <<>>
  /\ UNCHANGED <<text_dir, k, licenses_data, exc, folders, files,
                 found_count, li, i, budget, reports>>

Reject(t) ==
  /\ pc = "prompt"
  /\ ~IsExit(t)
  /\ IsBlank(t)
  /\ term' = t
  /\ msgs' = <<"invalid term">>
  /\ UNCHANGED <<text_dir, k, licenses_data, pc, exc, folders, files,
                 found_count, li, i, budget, reports>>

StartSearch(t) ==
  /\ pc = "prompt"
  /\ ~IsExit(t)
  /\ ~IsBlank(t)
  /\ budget > 0
  /\ budget' = budget - 1
  /\ term' = t
  /\ folders' = folders \cup {sanitize_for_foldername(t)}
  /\ msgs' = <<>>
  /\ pc' = "open"
  /\ UNCHANGED <<text_dir, k, licenses_data, exc, files,
                 found_count, li, i, reports>>

OpenReport ==
  /\ pc = "open"
  /\ files' = OpenWrite(files, sanitize_for_foldername(term))
  /\ found_count' = 0
  /\ li' = 1
  /\ i' = 1
  /\ pc' = "scan"
  /\ UNCHANGED <<text_dir, k, licenses_data, exc, term, folders, msgs, budget, reports>>

(* open() raises IOError (the output area is not writable): reported by    *)
(* the except IOError clause, nothing written, back to the prompt          *)
OpenFails ==
  /\ pc = "open"
  /\ msgs' = <<"error writing to file">>
  /\ pc' = "prompt"
  /\ UNCHANGED <<text_dir, k, licenses_data, exc, term, folders, files,
                 found_count, li, i, budget, reports>>

Scanning == pc = "scan" /\ li <= Len(licenses_data)

Advance ==
  IF i < Len(Paragraphs(licenses_data[li]))
  THEN i' = i + 1 /\ li' = li
  ELSE i' = 1 /\ li' = li + 1

ScanBlank ==
  /\ Scanning
  /\ CleanPara(Paragraphs(licenses_data[li]), i) = <<>>
  /\ Advance
  /\ UNCHANGED <<text_dir, k, licenses_data, pc, exc, term, folders, files,
                 found_count, msgs, budget, reports>>

(* re.error is neither IOError nor KeyboardInterrupt: it leaves main; the  *)
(* with-block closes the file on the way out                               *)
ScanPatternError ==
  /\ Scanning
  /\ CleanPara(Paragraphs(licenses_data[li]), i) # <<>>
  /\ ~Compiles(Strip(term))
  /\ pc' = "crashed"
  /\ exc' = "re.error"
  /\ UNCHANGED <<text_dir, k, licenses_data, term, folders, files,
                 found_count, li, i, msgs, budget, reports>>

ScanPara ==
  /\ Scanning
  /\ CleanPara(Paragraphs(licenses_data[li]), i) # <<>>
  /\ Compiles(Strip(term))
  /\ LET ps == Paragraphs(licenses_data[li])
         pat == Strip(term)
     IN  /\ found_count' = CountAfter(found_count, ps, i, pat)
         /\ files' = IF IsHit(ps, i, pat)
                     THEN WriteRow(files, sanitize_for_foldername(term),
                                   RowFor(licenses_data[li], ps, i))
                     ELSE files
  /\ Advance
  /\ UNCHANGED <<text_dir, k, licenses_data, pc, exc, term, folders, msgs, budget, reports>>

ReportFound ==
  /\ pc = "scan"
  /\ li > Len(licenses_data)
  /\ found_count > 0
  /\ msgs' = <<"found">>
  /\ reports' = Record(reports, term, files[sanitize_for_foldername(term)])
  /\ pc' = "prompt"
  /\ UNCHANGED <<text_dir, k, licenses_data, exc, term, folders, files,
                 found_count, li, i, budget>>

ReportNone ==
  /\ pc = "scan"
  /\ li > Len(licenses_data)
  /\ found_count = 0
  /\ IF DirEmpty(files, sanitize_for_foldername(term))
     THEN /\ folders' = folders \ {sanitize_for_foldername(term)}
          /\ msgs' = <<"no results">>
     ELSE /\ folders' = folders
          /\ msgs' = <<"no results", "error writing to file">>
  /\ reports' = Record(reports, term, files[sanitize_for_foldername(term)])
  /\ pc' = "prompt"
  /\ UNCHANGED <<text_dir, k, licenses_data, exc, term, files,
                 found_count, li, i, budget>>

(* KeyboardInterrupt inside the try of main: at the prompt, between        *)
(* makedirs and open, or during the scan (the with-block then closes the   *)
(* file with the rows written so far)                                      *)
Interrupt ==
  /\ pc \in {"prompt", "open", "scan"}
  /\ pc' = "done"
  /\ msgs' = Append(msgs, "exiting")
  /\ UNCHANGED <<text_dir, k, licenses_data, exc, term, folders, files,
                 found_count, li, i, budget, reports>>

Next ==
  \/ LoadMissing
  \/ LoadSkipName
  \/ LoadRead
  \/ LoadIOError
  \/ LoadDecodeError
  \/ LoadFinish
  \/ \E t \in TermSet : Exit(t)
  \/ \E t \in TermSet : Reject(t)
  \/ \E t \in TermSet : StartSearch(t)
  \/ OpenReport
  \/ OpenFails
  \/ ScanBlank
  \/ ScanPatternError
  \/ ScanPara
  \/ ReportFound
  \/ ReportNone
  \/ Interrupt

Spec == Init /\ [][Next]_vars

SpecSearch == InitSearch /\ [][Next]_vars

(* ----------------------------- properties ------------------------------ *)

Folder(t) == sanitize_for_foldername(t)

Completed == pc = "prompt" /\ (Range(msgs) \cap {"found", "no results"}) # {}

(* the paragraphs of a text as the specification defines them: trimmed,    *)
(* empty ones dropped                                                      *)
NonEmptyParas(text) ==
  LET ps == re_split(text)
  IN  SelectSeq([n \in 1..Len(ps) |-> Strip(ps[n])], LAMBDA p : p # <<>>)

(* some alternative of the pattern equals, ignoring case, a substring of p *)
ContainsIgnoringCase(pat, p) ==
  \E lit \in Alternatives(pat) :
    \E a \in 1..(Len(p) + 1) : \E b \in (a - 1)..Len(p) :
      LowerStr(SubSeq(p, a, b)) = LowerStr(lit)

RECURSIVE ExpectedDocRows(_, _, _, _)
ExpectedDocRows(id, ne, pat, n) ==
  IF n > Len(ne) THEN <<>>
  ELSE (IF ContainsIgnoringCase(pat, ne[n])
        THEN << <<id,
                  IF n > 1 THEN ne[n - 1] ELSE NA,
                  ne[n],
                  IF n < Len(ne) THEN ne[n + 1] ELSE NA>> >>
        ELSE <<>>)
         \o ExpectedDocRows(id, ne, pat, n + 1)

RECURSIVE ExpectedRows(_, _, _)
ExpectedRows(data, pat, d) ==
  IF d > Len(data) THEN <<>>
  ELSE ExpectedDocRows(data[d].licenseId, NonEmptyParas(data[d].licenseText), pat, 1)
         \o ExpectedRows(data, pat, d + 1)

RECURSIVE ExpectedCount(_, _, _)
ExpectedCount(data, pat, d) ==
  IF d > Len(data) THEN 0
  ELSE LET ne == NonEmptyParas(data[d].licenseText)
       IN  Cardinality({n \in 1..Len(ne) : ContainsIgnoringCase(pat, ne[n])})
             + ExpectedCount(data, pat, d + 1)

RECURSIVE NonEmptyCount(_, _)
NonEmptyCount(data, d) ==
  IF d > Len(data) THEN 0
  ELSE Len(NonEmptyParas(data[d].licenseText)) + NonEmptyCount(data, d + 1)

(* C1: every row of a completed report carries, as before/after, the       *)
(* nearest non-empty paragraph of the document on that side, or "N/A" when *)
(* there is none (first / last non-empty paragraph), also when the text    *)
(* begins or ends with blank lines.                                        *)
C1_ContextIsNearestNonEmpty ==
  (pc = "prompt" /\ msgs = <<"found">>)
    => files[Folder(term)] = <<Header>> \o ExpectedRows(licenses_data, Strip(term), 1)

(* C2: when a search that matched nothing is back at the prompt, its       *)
(* output folder is gone, no results.csv exists for it, and the operator   *)
(* saw "no results" and no write error.                                    *)
C2_NoMatchFolderRemoved ==
  (pc = "prompt" /\ "no results" \in Range(msgs))
    => /\ Folder(term) \notin folders
       /\ Folder(term) \notin DOMAIN files
       /\ msgs = <<"no results">>

(* C3: a term that does not compile as a pattern never terminates the      *)
(* process: the process is never dead of an uncaught pattern error.        *)
C3_BadPatternNotFatal == ~(pc = "crashed" /\ exc = "re.error")

(* C4: the count a completed search returns is the number of non-empty     *)
(* paragraphs, over all documents, in which the pattern occurs at least    *)
(* once, case-insensitively; several occurrences in one paragraph count    *)
(* once.                                                                   *)
C4_CountIsMatchingParagraphs ==
  Completed => found_count = ExpectedCount(licenses_data, Strip(term), 1)

C4_Witness ==
  /\ Completed
  /\ Len(licenses_data) = 2
  /\ found_count >= 2
  /\ found_count < NonEmptyCount(licenses_data, 1)
  /\ \E d \in 1..Len(licenses_data) :
       \E p \in Range(NonEmptyParas(licenses_data[d].licenseText)) :
         Cardinality(Occurrences(Strip(term), p)) >= 2

(* C5: between searches, the report of every completed search is still     *)
(* what that search wrote, unless the same term was searched again: no     *)
(* search of a different term overwrote it.                                *)
C5_ReportsNeverClobbered ==
  pc = "prompt" =>
    \A n \in 1..Len(reports) :
      (\A m \in (n+1)..Len(reports) : Strip(reports[m].term) # Strip(reports[n].term))
        => /\ Folder(reports[n].term) \in DOMAIN files
           /\ files[Folder(reports[n].term)] = reports[n].content

(* C6: a step of the prompt that reads an empty or whitespace-only term    *)
(* stays at the prompt and changes neither the output area nor any other   *)
(* session state; the search is not started.                               *)
C6_BlankTermRejected ==
  [][(pc = "prompt" /\ pc' # "done" /\ (\A n \in 1..Len(term') : IsSpace(term'[n])))
       => /\ pc' = "prompt"
          /\ UNCHANGED <<folders, files, licenses_data, found_count, li, i,
                         budget, reports, exc>>]_vars

C6_Witness ==
  /\ pc = "prompt"
  /\ msgs = <<"invalid term">>
  /\ term = <<SP>>
  /\ Len(reports) >= 1
  /\ DOMAIN files # {}

(* C7: after an interrupt ended the process, every results.csv in the      *)
(* output area is the complete report (header and all match rows) of some  *)
(* search.                                                                 *)
C7_InterruptLeavesCompleteReports ==
  (pc = "done" /\ "exiting" \in Range(msgs))
    => \A f \in DOMAIN files :
         \E t \in TermSet :
           /\ Compiles(Strip(t))
           /\ files[f] = <<Header>> \o AllRows(licenses_data, Strip(t), 1)

(* C8: a search that completed with a written report left exactly one      *)
(* header row followed by exactly found_count data rows, each holding a    *)
(* paragraph that matches the term.                                        *)
C8_ReportHasCountRows ==
  (pc = "prompt" /\ msgs = <<"found">>)
    => LET r == files[Folder(term)]
       IN  /\ Len(r) = found_count + 1
           /\ r[1] = Header
           /\ \A n \in 2..Len(r) :
                /\ r[n] # Header
                /\ \E d \in 1..Len(licenses_data) : licenses_data[d].licenseId = r[n][1]
                /\ ContainsIgnoringCase(Strip(term), r[n][3])

C8_Witness ==
  /\ pc = "prompt"
  /\ msgs = <<"found">>
  /\ found_count >= 2
  /\ found_count < NonEmptyCount(licenses_data, 1)
  /\ Len(files[Folder(term)]) = 3

DocIndex(id) == CHOOSE d \in 1..Len(licenses_data) : licenses_data[d].licenseId = id

(* C9: every completed search of a term leaves the same report content as  *)
(* the earlier completed searches of that term, whatever ran in between:   *)
(* one header, then the rows with the documents in load order.             *)
C9_SameTermSameReport ==
  \A n \in 1..Len(reports) :
    /\ \A m \in 1..Len(reports) :
         reports[m].term = reports[n].term => reports[m].content = reports[n].content
    /\ LET r == reports[n].content
       IN  /\ r[1] = Header
           /\ \A a \in 2..Len(r) : \A b \in a..Len(r) :
                DocIndex(r[a][1]) <= DocIndex(r[b][1])

C9_Witness ==
  /\ pc = "prompt"
  /\ Len(reports) = 3
  /\ reports[1].term = reports[3].term
  /\ reports[2].term # reports[1].term
  /\ Folder(reports[2].term) = Folder(reports[1].term)
  /\ reports[2].content # reports[1].content
  /\ Len(reports[3].content) >= 3
  /\ Len(licenses_data) = 2

LoadableEntries(listing) ==
  LET ok == SelectSeq(listing, LAMBDA f : f.ext = ".txt" /\ f.status = "ok")
  IN  [n \in 1..Len(ok) |-> [licenseId |-> ok[n].stem, licenseText |-> ok[n].text]]

(* C10: loading never aborts on a file that cannot be read or decoded:     *)
(* once loading is over, every readable entry of the directory has been    *)
(* loaded, in listing order.                                               *)
C10_LoadSkipsUnreadable ==
  (pc # "load" /\ text_dir.exists)
    => /\ exc # "UnicodeDecodeError"
       /\ licenses_data = LoadableEntries(text_dir.listing)


====
